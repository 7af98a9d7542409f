------------------------------ MODULE EventQueue ------------------------------
(***************************************************************************)
(* event_queue.c with the threads that use it: collector threads that push *)
(* and the GUI thread that is woken by a posted window message, pops until *)
(* the queue is empty, and at shutdown joins the collectors, detaches the  *)
(* window and destroys the queue.                                          *)
(*                                                                         *)
(* The body of a critical section is one step; what runs before and after  *)
(* it is a step of its own.  Nodes are heap blocks, reused once freed; the *)
(* values they carry are numbered by the thread that made them.  chain is  *)
(* an auxiliary variable: the nodes linked and not yet unlinked, in the    *)
(* order they were linked.  No step of the code depends on it.             *)
(***************************************************************************)
EXTENDS Integers, Sequences, FiniteSets, Functions

CONSTANTS Producers,      \* the polling worker and the ETW consumer
          Nodes,          \* heap blocks
          Null,
          MaxPushes,      \* bound of the model: pushes of one producer
          AllocMayFail,   \* whether malloc may return NULL
          PostMayFail     \* whether PostMessageW may fail

ASSUME NullAssumption == Null \notin Nodes

ASSUME BoundAssumption == MaxPushes \in Nat

ASSUME FailureAssumption == AllocMayFail \in BOOLEAN /\ PostMayFail \in BOOLEAN

VARIABLES
  initialized, window, notification_pending,   \* EventQueue
  head, tail, next, value,                     \* EventQueue, EventNode
  heap,        \* the allocated nodes
  messages,    \* posted and not yet received TRACEGLASS_WM_EVENTS_READY
  pc, node,    \* each producer: where it is in push_event, the node it made
  sent,        \* each producer: how many values it has made
  stop,        \* the collectors have been told to end
  gui,         \* where the GUI thread is
  hand,        \* the node pop_event has unlinked
  delivered,   \* the values the GUI has taken
  chain

list == <<head, tail, next, value, chain>>
sync == <<initialized, window, notification_pending>>
producing == <<pc, node, sent>>
consuming == <<stop, gui, hand, delivered>>
vars == <<list, sync, heap, messages, producing, consuming>>

Values == Producers \X (1..MaxPushes)

PushStates == {"idle", "link", "post", "done"}
GuiStates  == {"loop", "drain", "use", "joining", "detach", "destroy", "free",
               "closed"}

TypeOK ==
  /\ initialized \in BOOLEAN /\ window \in BOOLEAN
  /\ notification_pending \in BOOLEAN
  /\ head \in Nodes \cup {Null} /\ tail \in Nodes \cup {Null}
  /\ next \in [Nodes -> Nodes \cup {Null}]
  /\ value \in [Nodes -> Values \cup {Null}]
  /\ heap \subseteq Nodes
  /\ messages \in Nat
  /\ pc \in [Producers -> PushStates]
  /\ node \in [Producers -> Nodes \cup {Null}]
  /\ sent \in [Producers -> 0..MaxPushes]
  /\ stop \in BOOLEAN /\ gui \in GuiStates
  /\ hand \in Nodes \cup {Null}
  /\ delivered \in Seq(Values)
  /\ chain \in Seq(Nodes)

\* event_queue_initialize with the main window, before the collectors start.
Init ==
  /\ initialized = TRUE /\ window = TRUE /\ notification_pending = FALSE
  /\ head = Null /\ tail = Null
  /\ next = [n \in Nodes |-> Null] /\ value = [n \in Nodes |-> Null]
  /\ heap = {} /\ messages = 0
  /\ pc = [p \in Producers |-> "idle"] /\ node = [p \in Producers |-> Null]
  /\ sent = [p \in Producers |-> 0]
  /\ stop = FALSE /\ gui = "loop" /\ hand = Null
  /\ delivered = <<>> /\ chain = <<>>

-----------------------------------------------------------------------------
(* push_event *)

\* The unlocked test of initialized, malloc, and the copy of the event.
Allocate(p) ==
  /\ pc[p] = "idle" /\ sent[p] < MaxPushes /\ initialized
  /\ \E n \in Nodes \ heap :
       /\ heap' = heap \cup {n}
       /\ node' = [node EXCEPT ![p] = n]
       /\ next' = [next EXCEPT ![n] = Null]
       /\ value' = [value EXCEPT ![n] = <<p, sent[p] + 1>>]
  /\ sent' = [sent EXCEPT ![p] = @ + 1]
  /\ pc' = [pc EXCEPT ![p] = "link"]
  /\ UNCHANGED <<sync, head, tail, chain, messages, consuming>>

\* Faulty variant of AllocateFails: the NULL is linked like any node.
AllocateUnchecked(p) ==
  /\ AllocMayFail
  /\ pc[p] = "idle" /\ sent[p] < MaxPushes /\ initialized
  /\ sent' = [sent EXCEPT ![p] = @ + 1]
  /\ pc' = [pc EXCEPT ![p] = "link"]
  /\ UNCHANGED <<list, sync, heap, messages, node, consuming>>

\* malloc returns NULL: push_event returns FALSE, which no caller looks at.
AllocateFails(p) ==
  /\ AllocMayFail
  /\ pc[p] = "idle" /\ sent[p] < MaxPushes /\ initialized
  /\ sent' = [sent EXCEPT ![p] = @ + 1]
  /\ UNCHANGED <<list, sync, heap, messages, pc, node, consuming>>

\* Faulty variant of Link: every push notifies.
LinkAlwaysNotifies(p) ==
  /\ pc[p] = "link"
  /\ IF tail = Null
     THEN head' = node[p] /\ UNCHANGED next
     ELSE next' = [next EXCEPT ![tail] = node[p]] /\ UNCHANGED head
  /\ tail' = node[p]
  /\ chain' = Append(chain, node[p])
  /\ notification_pending' = TRUE
  /\ pc' = [pc EXCEPT ![p] = IF window THEN "post" ELSE "idle"]
  /\ node' = [node EXCEPT ![p] = Null]
  /\ UNCHANGED <<value, initialized, window, heap, messages, sent, consuming>>

\* The critical section: append the node, and become the one who notifies if
\* no notification is outstanding.
Link(p) ==
  /\ pc[p] = "link"
  /\ IF tail = Null
     THEN head' = node[p] /\ UNCHANGED next
     ELSE next' = [next EXCEPT ![tail] = node[p]] /\ UNCHANGED head
  /\ tail' = node[p]
  /\ chain' = Append(chain, node[p])
  /\ notification_pending' = TRUE
  /\ pc' = [pc EXCEPT ![p] = IF ~notification_pending /\ window THEN "post" ELSE "idle"]
  /\ node' = [node EXCEPT ![p] = Null]
  /\ UNCHANGED <<value, initialized, window, heap, messages, sent, consuming>>

\* PostMessageW after the lock is released; its result is not looked at.
Post(p) ==
  /\ pc[p] = "post"
  /\ \/ messages' = messages + 1
     \/ PostMayFail /\ UNCHANGED messages
  /\ pc' = [pc EXCEPT ![p] = "idle"]
  /\ UNCHANGED <<list, sync, heap, node, sent, consuming>>

\* A collector ends between two events once it has been told to.
Exit(p) ==
  /\ pc[p] = "idle" /\ stop
  /\ pc' = [pc EXCEPT ![p] = "done"]
  /\ UNCHANGED <<list, sync, heap, messages, node, sent, consuming>>

-----------------------------------------------------------------------------
(* The GUI thread: main_window_proc, drain_events, pop_event *)

\* TRACEGLASS_WM_EVENTS_READY starts drain_events.
ReceiveReady ==
  /\ gui = "loop" /\ messages > 0
  /\ messages' = messages - 1
  /\ gui' = "drain"
  /\ UNCHANGED <<list, sync, heap, producing, stop, hand, delivered>>

\* Faulty variant of Unlink: tail keeps pointing at the last node taken.
UnlinkKeepsTail ==
  /\ gui = "drain" /\ head # Null
  /\ hand' = head
  /\ head' = next[head]
  /\ chain' = Tail(chain)
  /\ gui' = "use"
  /\ UNCHANGED <<tail, next, value, sync, heap, messages, producing, stop, delivered>>

\* Faulty variant of Unlink: the node is freed before its value is copied.
UnlinkFreesFirst ==
  /\ gui = "drain" /\ head # Null
  /\ hand' = head
  /\ head' = next[head]
  /\ tail' = IF next[head] = Null THEN Null ELSE tail
  /\ chain' = Tail(chain)
  /\ heap' = heap \ {head}
  /\ gui' = "use"
  /\ UNCHANGED <<next, value, sync, messages, producing, stop, delivered>>

\* The critical section of pop_event when the queue is not empty.
Unlink ==
  /\ gui = "drain" /\ head # Null
  /\ hand' = head
  /\ head' = next[head]
  /\ tail' = IF next[head] = Null THEN Null ELSE tail
  /\ chain' = Tail(chain)
  /\ gui' = "use"
  /\ UNCHANGED <<next, value, sync, heap, messages, producing, stop, delivered>>

\* Faulty variant of FindEmpty: the flag stays set.
FindEmptyKeepsPending ==
  /\ gui = "drain" /\ head = Null
  /\ gui' = "loop"
  /\ UNCHANGED <<list, sync, heap, messages, producing, stop, hand, delivered>>

\* The same when it is empty; drain_events returns to the message loop.
FindEmpty ==
  /\ gui = "drain" /\ head = Null
  /\ notification_pending' = FALSE
  /\ gui' = "loop"
  /\ UNCHANGED <<list, initialized, window, heap, messages, producing,
                 stop, hand, delivered>>

\* pop_event copies the value and frees the node; drain_events stores it.
Consume ==
  /\ gui = "use"
  /\ delivered' = Append(delivered, value[hand])
  /\ heap' = heap \ {hand}
  /\ hand' = Null
  /\ gui' = "drain"
  /\ UNCHANGED <<list, sync, messages, producing, stop>>

-----------------------------------------------------------------------------
(* shutdown_gui_state *)

\* WM_DESTROY: shutdown_telemetry tells the collectors to end.  (It tells and
\* joins the polling worker before the ETW session; either order is a case of
\* this one.)
Close ==
  /\ gui = "loop"
  /\ stop' = TRUE
  /\ gui' = "joining"
  /\ UNCHANGED <<list, sync, heap, messages, producing, hand, delivered>>

\* Faulty variant of Join: the GUI does not wait for the threads.
JoinNobody ==
  /\ gui = "joining"
  /\ gui' = "detach"
  /\ UNCHANGED <<list, sync, heap, messages, producing, stop, hand, delivered>>

\* ... and waits for both threads.
Join ==
  /\ gui = "joining" /\ \A p \in Producers : pc[p] = "done"
  /\ gui' = "detach"
  /\ UNCHANGED <<list, sync, heap, messages, producing, stop, hand, delivered>>

\* event_queue_set_window(queue, NULL).
Detach ==
  /\ gui = "detach"
  /\ window' = FALSE
  /\ gui' = "destroy"
  /\ UNCHANGED <<list, initialized, notification_pending, heap, messages,
                 producing, stop, hand, delivered>>

\* event_queue_destroy: the list is taken off the queue in the critical section
Destroy ==
  /\ gui = "destroy"
  /\ initialized' = FALSE /\ window' = FALSE
  /\ hand' = head
  /\ head' = Null /\ tail' = Null
  /\ gui' = "free"
  /\ UNCHANGED <<next, value, chain, notification_pending, heap, messages,
                 producing, stop, delivered>>

\* Faulty variant of FreeNode: the last node is left behind.
FreeAllButLast ==
  /\ gui = "free" /\ hand # Null
  /\ heap' = IF next[hand] = Null THEN heap ELSE heap \ {hand}
  /\ hand' = next[hand]
  /\ chain' = Tail(chain)
  /\ UNCHANGED <<head, tail, next, value, sync, messages, producing,
                 stop, gui, delivered>>

\* Faulty variant of FreeNode: the loop does not advance.
FreeSameNode ==
  /\ gui = "free" /\ hand # Null
  /\ heap' = heap \ {hand}
  /\ UNCHANGED <<list, sync, messages, producing, consuming>>

\* ... and freed node by node, next being read before the node is freed.
FreeNode ==
  /\ gui = "free" /\ hand # Null
  /\ heap' = heap \ {hand}
  /\ hand' = next[hand]
  /\ chain' = Tail(chain)
  /\ UNCHANGED <<head, tail, next, value, sync, messages, producing,
                 stop, gui, delivered>>

\* DeleteCriticalSection: the queue is gone.
Finish ==
  /\ gui = "free" /\ hand = Null
  /\ gui' = "closed"
  /\ UNCHANGED <<list, sync, heap, messages, producing, stop, hand, delivered>>

Push(p) == Allocate(p) \/ AllocateFails(p) \/ Link(p) \/ Post(p) \/ Exit(p)

Gui == ReceiveReady \/ Unlink \/ FindEmpty \/ Consume
         \/ Close \/ Join \/ Detach \/ Destroy \/ FreeNode \/ Finish

Next == (\E p \in Producers : Push(p)) \/ Gui

Spec == Init /\ [][Next]_vars

\* A collector that has allocated a node finishes its push and, when told to
\* end, ends; the GUI thread keeps running.  Nothing makes a collector push or
\* the user close the window.
Fairness ==
  /\ \A p \in Producers : WF_vars(Link(p) \/ Post(p) \/ Exit(p))
  /\ WF_vars(ReceiveReady \/ Unlink \/ FindEmpty \/ Consume)
  /\ WF_vars(Join \/ Detach \/ Destroy \/ FreeNode \/ Finish)

FairSpec == Spec /\ Fairness

-----------------------------------------------------------------------------
(* Properties. *)

Notifiers == {p \in Producers : pc[p] = "post"}
Draining  == gui \in {"drain", "use"}
Closing   == gui \notin {"loop", "drain", "use"}

\* architecture.md:59: at most one window notification is outstanding, be it
\* about to be posted, posted, or being answered by a drain; while one is, the
\* pending flag is set, so no producer makes a second.
OneNotification ==
  /\ \A p, q \in Notifiers : p = q
  /\ messages <= 1
  /\ messages = 1 => Notifiers = {}
  /\ Draining => messages = 0 /\ Notifiers = {}
  /\ messages = 1 \/ Notifiers # {} \/ Draining => notification_pending

\* Whoever finds the queue non-empty finds the flag set.
NonEmptyIsPending == chain # <<>> => notification_pending

\* While the flag is set some notification is under way.
PendingIsOwned ==
  ~PostMayFail /\ notification_pending /\ ~Closing
    => messages = 1 \/ Notifiers # {} \/ Draining

\* No lost wakeup: a queue that holds something has its flag set, so the next
\* producer will stay silent, and a set flag has a notification under way as
\* long as PostMessageW does its work (event_queue.c:52-60 and 75-80).
WakeupOwned == NonEmptyIsPending /\ PendingIsOwned

\* One notification when there is something to drain, and never two: what the
\* pending flag, which three threads set and clear, is there for.
NotificationsExact == OneNotification /\ WakeupOwned

\* Where the linked nodes start: at destruction the list hangs on a local.
Front == IF gui = "free" THEN hand ELSE head

\* head, tail and the next pointers describe one list, null-terminated, with
\* the nodes in the order they were linked; tail is null exactly when head is.
ListIntact ==
  /\ Front = IF chain = <<>> THEN Null ELSE chain[1]
  /\ gui \notin {"free", "closed"} =>
       tail = IF chain = <<>> THEN Null ELSE chain[Len(chain)]
  /\ \A i \in 1..Len(chain) :
       next[chain[i]] = IF i = Len(chain) THEN Null ELSE chain[i + 1]

\* The nodes some thread still holds outside the list.
Held == {node[p] : p \in {q \in Producers : pc[q] = "link"}}
          \cup (IF gui = "use" THEN {hand} ELSE {})

\* Every allocated node is on the list once or in one thread's hands: none is
\* used after it was freed, freed twice, or leaked.
NodesOwnedOnce ==
  /\ \A i, j \in 1..Len(chain) : chain[i] = chain[j] => i = j
  /\ Held \cap Range(chain) = {}
  /\ \A p, q \in Producers : pc[p] = "link" /\ pc[q] = "link" /\ node[p] = node[q] => p = q
  /\ gui = "use" => \A p \in Producers : pc[p] = "link" => node[p] # hand
  /\ heap = Held \cup Range(chain)

\* architecture.md:96: once the window is detached no collector is left to
\* push into the queue, and a destroyed queue leaves no heap node behind.
NothingOutlivesTheQueue ==
  /\ gui \in {"detach", "destroy", "free", "closed"} => \A p \in Producers : pc[p] = "done"
  /\ gui = "closed" => heap = {}

\* What is queued, and what has left the queue for the GUI.
Gone   == gui \in {"free", "closed"}
Queued == IF Gone THEN <<>> ELSE [i \in 1..Len(chain) |-> value[chain[i]]]
Taken  == IF gui = "use" THEN Append(delivered, value[hand]) ELSE delivered

Fifo == INSTANCE EventFifo WITH queue <- Queued, delivered <- Taken, open <- ~Gone

\* The queue implements the abstract FIFO: values are delivered once each and
\* in the order the producers linked them.
ImplementsFifo == Fifo!Spec

\* A pushed event reaches the GUI unless the user closes the window
\* (architecture.md:59 "The GUI drains all queued values per notification").
PushedIsDelivered ==
  \A v \in Values :
    (\E i \in 1..Len(chain) : value[chain[i]] = v)
      ~> ((\E i \in 1..Len(delivered) : delivered[i] = v) \/ Closing)

\* Closing the window always gets to the end: no thread waits for another
\* forever, and the free loop terminates.
ShutdownCompletes == (gui = "joining") ~> (gui = "closed")
===============================================================================
