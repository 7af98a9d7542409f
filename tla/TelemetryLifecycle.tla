-------------------------- MODULE TelemetryLifecycle --------------------------
(***************************************************************************)
(* How TraceGlass opens and closes what it uses.  wWinMain opens the log and *)
(* runs the GUI, which registers its window classes and creates the window; *)
(* WM_CREATE makes the fonts, the store, the queue, Winsock, the stop event,  *)
(* the ETW session and the two threads one after another, any of which        *)
(* Windows may refuse; shutdown_gui_state takes them down in the opposite     *)
(* order while the threads still run.                                       *)
(*                                                                         *)
(* os is what Windows holds for the program; the other variables are the    *)
(* program's own idea of it.                                                *)
(***************************************************************************)
EXTENDS Naturals, FiniteSets

VARIABLES
  gui,        \* where the GUI thread is
  engine,     \* TelemetryEngine: stop_event, worker_thread, running, network_available
  etw,        \* EtwProcessMonitor: session_handle, trace_handle, thread, running, enabled, last_error
  state,      \* GuiState: store_ready, queue_ready, telemetry_ready, shutting_down
  os,         \* what is open or allocated in Windows
  signalled,  \* the manual-reset stop event
  worker,     \* where the polling thread is
  consumer,   \* where the ETW consumer thread is
  starved     \* the allocation of the trace properties failed while stopping a session

vars == <<gui, engine, etw, state, os, signalled, worker, consumer, starved>>

\* "processes" and "connections" are what the two pollers keep of the last poll,
\* "log" is the logger's lock, "log_file" its file.
Resources ==
  {"log", "log_file", "details_class", "main_class", "window", "fonts", "store", "queue",
   "winsock", "event", "session", "trace", "consumer", "worker", "processes", "connections"}

GuiSteps ==
  {"log", "details_class", "main_class", "window", "create", "controls", "store", "queue",
   "winsock", "event", "reset", "properties", "session", "provider", "trace", "consumer", "worker",
   "loop", "broken", "destroy", "signal", "join_worker", "stopped", "etw_stop",
   "session_stop", "trace_close", "join_consumer", "release", "close_event",
   "queue_destroy", "store_destroy", "leave", "log_close", "exit"}
\* Where a thread can be: in WaitForSingleObject or ProcessTrace, or in a call it makes.
WorkerSteps == {"none", "check", "process", "network", "sleep", "ended"}
ConsumerSteps == {"none", "begin", "tracing", "callback", "ended"}

NoMonitor == [session_handle |-> FALSE, trace_handle |-> FALSE, thread |-> FALSE,
              running |-> FALSE, enabled |-> FALSE, last_error |-> FALSE]
NoEngine == [stop_event |-> FALSE, worker_thread |-> FALSE, running |-> FALSE,
             network_available |-> FALSE]

Init ==
  /\ gui = "log"
  /\ engine = NoEngine
  /\ etw = NoMonitor
  /\ state = [store_ready |-> FALSE, queue_ready |-> FALSE, telemetry_ready |-> FALSE,
              shutting_down |-> FALSE]
  /\ os = {}
  /\ signalled = FALSE
  /\ worker = "none" /\ consumer = "none"
  /\ starved = FALSE

Go(from, to) == gui = from /\ gui' = to
Threads == <<worker, consumer>>

\* Where etw_process_monitor_stop returns to: the failing start, or shutdown_telemetry.
AfterEtw == IF state.shutting_down THEN "release" ELSE "destroy"

-----------------------------------------------------------------------------
(* Faulty variants of the code, which the properties tell apart. *)

\* telemetry_ready set by a successful start only.
CreateStopEventUnready ==
  /\ Go("event", "reset")
  /\ engine' = [engine EXCEPT !.stop_event = TRUE]
  /\ os' = os \union {"event"}
  /\ UNCHANGED <<etw, state, signalled, Threads, starved>>

\* The monitors are released when the ETW thread has been told to stop.
JoinConsumerAtOnce ==
  /\ gui = "join_consumer"
  /\ gui' = AfterEtw
  /\ os' = os \ {"consumer"}
  /\ etw' = NoMonitor
  /\ UNCHANGED <<engine, state, signalled, Threads, starved>>

\* The closed handle of the stop event is kept.
CloseStopEventDangling ==
  /\ Go("close_event", "queue_destroy")
  /\ state' = [state EXCEPT !.telemetry_ready = FALSE]
  /\ os' = os \ {"event"}
  /\ UNCHANGED <<engine, etw, signalled, Threads, starved>>

\* Waits for the polling thread without telling it to stop.
SignalNobody ==
  /\ Go("signal", "join_worker")
  /\ UNCHANGED <<engine, etw, state, os, signalled, Threads, starved>>

-----------------------------------------------------------------------------
(* wWinMain and gui_run up to the window's creation. *)

\* A step of opening or closing that touches nothing but Windows.
Only(from, to, held) ==
  /\ Go(from, to)
  /\ os' = held
  /\ UNCHANGED <<engine, etw, state, signalled, Threads, starved>>

\* logger_initialize, whose result wWinMain ignores: without a file the log goes
\* to the debugger alone.
OpenLog ==
  \/ Only("log", "details_class", {"log", "log_file"})
  \/ Only("log", "details_class", {"log"})

\* gui_run returns at once when a class cannot be registered.
RegisterClasses ==
  \/ Only("details_class", "main_class", os \union {"details_class"})
  \/ Only("details_class", "log_close", os)
  \/ Only("main_class", "window", os \union {"main_class"})
  \/ Only("main_class", "log_close", os \ {"details_class"})

\* CreateWindowExW, which calls WM_CREATE, unless it fails before.
CreateWindow ==
  \/ Only("window", "create", os \union {"window"})
  \/ Only("window", "destroy", os)

(* WM_CREATE.  When it returns -1 the window is destroyed at once. *)

\* recreate_fonts: all four fonts or none.
CreateFonts ==
  \/ Only("create", "controls", os \union {"fonts"})
  \/ Only("create", "destroy", os)

\* create_controls: one control that is missing is enough to give up.  The controls
\* belong to the window.
CreateControls == \E to \in {"store", "destroy"} : Only("controls", to, os)

InitializeStore ==
  /\ Go("store", "queue")
  /\ os' = os \union {"store"} /\ state' = [state EXCEPT !.store_ready = TRUE]
  /\ UNCHANGED <<engine, etw, signalled, Threads, starved>>

InitializeQueue ==
  /\ Go("queue", "winsock")
  /\ os' = os \union {"queue"} /\ state' = [state EXCEPT !.queue_ready = TRUE]
  /\ UNCHANGED <<engine, etw, signalled, Threads, starved>>

\* network_monitor_initialize: without Winsock only the TCP telemetry is missing.
StartWinsock ==
  /\ Go("winsock", "event")
  /\ \E started \in BOOLEAN :
       /\ engine' = [NoEngine EXCEPT !.network_available = started]
       /\ os' = IF started THEN os \union {"winsock"} ELSE os
  /\ UNCHANGED <<etw, state, signalled, Threads, starved>>

\* telemetry_ready is set only when initialize_telemetry succeeds.
CreateStopEvent ==
  /\ Go("event", "reset")
  /\ engine' = [engine EXCEPT !.stop_event = TRUE]
  /\ os' = os \union {"event"}
  /\ state' = [state EXCEPT !.telemetry_ready = TRUE]
  /\ UNCHANGED <<etw, signalled, Threads, starved>>

StopEventFails ==
  /\ Go("event", "destroy")
  /\ os' = os \ {"winsock"}
  /\ UNCHANGED <<engine, etw, state, signalled, Threads, starved>>

StartTelemetry ==
  /\ Go("reset", "properties")
  /\ signalled' = FALSE
  /\ etw' = NoMonitor
  /\ UNCHANGED <<engine, state, os, Threads, starved>>

-----------------------------------------------------------------------------
(* etw_process_monitor_start.  When it fails the program goes on with Win32 *)
(* polling alone: the GUI thread's next step is the worker either way.     *)

AllocateProperties ==
  /\ Go("properties", "session")
  /\ UNCHANGED <<engine, etw, state, os, signalled, Threads, starved>>

StartTrace ==
  /\ Go("session", "provider")
  /\ etw' = [etw EXCEPT !.session_handle = TRUE]
  /\ os' = os \union {"session"}
  /\ UNCHANGED <<engine, state, signalled, Threads, starved>>

EnableProvider ==
  /\ Go("provider", "trace")
  /\ UNCHANGED <<engine, etw, state, os, signalled, Threads, starved>>

OpenTrace ==
  /\ Go("trace", "consumer")
  /\ etw' = [etw EXCEPT !.trace_handle = TRUE]
  /\ os' = os \union {"trace"}
  /\ UNCHANGED <<engine, state, signalled, Threads, starved>>

\* The thread may run before the monitor is marked enabled: both are this step,
\* since the consumer never reads the flag.
CreateConsumer ==
  /\ Go("consumer", "worker")
  /\ etw' = [etw EXCEPT !.running = TRUE, !.thread = TRUE, !.enabled = TRUE, !.last_error = FALSE]
  /\ os' = os \union {"consumer"}
  /\ consumer' = "begin"
  /\ UNCHANGED <<engine, state, signalled, worker, starved>>

\* Each failing call records its error and undoes the calls before it with the
\* properties it still has.
EtwCallFails ==
  /\ \E step \in {"properties", "session", "provider", "trace"} : Go(step, "worker")
  /\ etw' = [etw EXCEPT !.session_handle = FALSE, !.trace_handle = FALSE, !.last_error = TRUE]
  /\ os' = os \ {"session"}
  /\ UNCHANGED <<engine, state, signalled, Threads, starved>>

\* Only a failing CreateThread must allocate the properties again to stop the session.
ConsumerFails ==
  /\ Go("consumer", "worker")
  /\ etw' = [etw EXCEPT !.session_handle = FALSE, !.trace_handle = FALSE, !.last_error = TRUE]
  /\ \E allocated \in BOOLEAN :
       /\ os' = os \ (IF allocated THEN {"trace", "session"} ELSE {"trace"})
       /\ starved' = ~allocated
  /\ UNCHANGED <<engine, state, signalled, Threads>>

-----------------------------------------------------------------------------
(* The rest of start_telemetry. *)

CreateWorker ==
  /\ Go("worker", "loop")
  /\ engine' = [engine EXCEPT !.running = TRUE, !.worker_thread = TRUE]
  /\ os' = os \union {"worker"}
  /\ worker' = "check"
  /\ UNCHANGED <<etw, state, signalled, consumer, starved>>

\* start_telemetry stops ETW before it fails, and WM_CREATE then returns -1.
WorkerFails ==
  /\ Go("worker", "etw_stop")
  /\ UNCHANGED <<engine, etw, state, os, signalled, Threads, starved>>

-----------------------------------------------------------------------------
(* The end: WM_CLOSE, or a message loop that fails, leads to                *)
(* shutdown_gui_state; WM_DESTROY and gui_run both call it.                 *)
(*                                                                         *)
(* The order is that of telemetry.c:76-99 and gui.c:1672-1692: the worker is *)
(* signalled and joined before ETW is stopped, and the snapshots, Winsock    *)
(* and the event go before the queue.  docs/architecture.md:87-94 has ETW    *)
(* stopped first and the snapshots released after the queue.                 *)

CloseWindow == Only("loop", "destroy", os)

\* GetMessageW fails: the window is still there and is left to Windows.
MessageLoopFails == Only("loop", "broken", os)

\* The window goes when WM_DESTROY has been handled; nothing that follows here
\* can tell.
ShutdownGuiState ==
  /\ gui \in {"destroy", "broken"}
  /\ ~state.shutting_down
  /\ state' = [state EXCEPT !.shutting_down = TRUE]
  /\ gui' = IF ~state.telemetry_ready THEN "queue_destroy"
            ELSE IF engine.running THEN "signal" ELSE "etw_stop"
  /\ os' = IF gui = "destroy" THEN os \ {"window"} ELSE os
  /\ UNCHANGED <<engine, etw, signalled, Threads, starved>>

SignalWorker ==
  /\ Go("signal", "join_worker")
  /\ signalled' = TRUE
  /\ UNCHANGED <<engine, etw, state, os, Threads, starved>>

JoinWorker ==
  /\ Go("join_worker", "stopped")
  /\ worker = "ended"
  /\ os' = os \ {"worker"}
  /\ engine' = [engine EXCEPT !.worker_thread = FALSE]
  /\ UNCHANGED <<etw, state, signalled, Threads, starved>>

WorkerStopped ==
  /\ Go("stopped", "etw_stop")
  /\ engine' = [engine EXCEPT !.running = FALSE]
  /\ UNCHANGED <<etw, state, os, signalled, Threads, starved>>

EtwStop ==
  /\ gui = "etw_stop"
  /\ gui' = IF etw.enabled THEN "session_stop" ELSE AfterEtw
  /\ etw' = IF etw.enabled THEN [etw EXCEPT !.running = FALSE] ELSE etw
  /\ UNCHANGED <<engine, state, os, signalled, Threads, starved>>

\* ControlTraceW needs the properties; without memory for them the session stays.
StopSession ==
  /\ Go("session_stop", "trace_close")
  /\ \E allocated \in BOOLEAN :
       /\ os' = IF allocated THEN os \ {"session"} ELSE os
       /\ starved' = (starved \/ ~allocated)
  /\ UNCHANGED <<engine, etw, state, signalled, Threads>>

CloseTrace ==
  /\ Go("trace_close", "join_consumer")
  /\ os' = os \ {"trace"}
  /\ UNCHANGED <<engine, etw, state, signalled, Threads, starved>>

JoinConsumer ==
  /\ gui = "join_consumer"
  /\ consumer = "ended"
  /\ gui' = AfterEtw
  /\ os' = os \ {"consumer"}
  /\ etw' = NoMonitor
  /\ UNCHANGED <<engine, state, signalled, Threads, starved>>

ReleaseMonitors ==
  /\ Go("release", "close_event")
  /\ engine' = [engine EXCEPT !.network_available = FALSE]
  /\ os' = os \ ({"processes"} \union
                 IF engine.network_available THEN {"winsock", "connections"} ELSE {})
  /\ UNCHANGED <<etw, state, signalled, Threads, starved>>

CloseStopEvent ==
  /\ Go("close_event", "queue_destroy")
  /\ engine' = [engine EXCEPT !.stop_event = FALSE]
  /\ state' = [state EXCEPT !.telemetry_ready = FALSE]
  /\ os' = os \ {"event"}
  /\ UNCHANGED <<etw, signalled, Threads, starved>>

DestroyQueue ==
  /\ Go("queue_destroy", "store_destroy")
  /\ os' = os \ {"queue"} /\ state' = [state EXCEPT !.queue_ready = FALSE]
  /\ UNCHANGED <<engine, etw, signalled, Threads, starved>>

DestroyStore ==
  /\ Go("store_destroy", "leave")
  /\ os' = os \ {"store"} /\ state' = [state EXCEPT !.store_ready = FALSE]
  /\ UNCHANGED <<engine, etw, signalled, Threads, starved>>

\* The end of gui_run.  A class that still has a window stays registered; beside
\* a main window that is left there may be a details window too.
LeaveGui ==
  LET closed == os \ {"fonts"}
  IN  IF "window" \in os
      THEN \E held \in {closed, closed \ {"details_class"}} : Only("leave", "log_close", held)
      ELSE Only("leave", "log_close", closed \ {"details_class", "main_class"})

\* logger_shutdown deletes the lock that logger_write takes.
CloseLog == Only("log_close", "exit", os \ {"log", "log_file"})

-----------------------------------------------------------------------------
(* The polling thread: telemetry_worker. *)

WorkerGo(from, to, held) ==
  /\ worker = from /\ worker' = to
  /\ os' = held

\* A poll that succeeds replaces what the monitor keeps of the one before.
Poll ==
  \/ WorkerGo("check", IF signalled THEN "ended" ELSE "process", os)
  \/ \E held \in {os, os \union {"processes"}} :
       WorkerGo("process", IF engine.network_available THEN "network" ELSE "sleep", held)
  \/ \E held \in {os, os \union {"connections"}} : WorkerGo("network", "sleep", held)
  \/ WorkerGo("sleep", IF signalled THEN "ended" ELSE "check", os)

Worker == Poll /\ UNCHANGED <<gui, engine, etw, state, signalled, consumer, starved>>

-----------------------------------------------------------------------------
(* The ETW thread: ProcessTrace blocks and calls etw_event_callback until   *)
(* the trace is closed or the session is gone.                              *)

Tracing == {"session", "trace"} \subseteq os

ConsumerGo(from, to) ==
  /\ consumer = from /\ consumer' = to
  /\ UNCHANGED <<gui, engine, etw, state, os, signalled, worker, starved>>

ConsumerBegins == ConsumerGo("begin", IF Tracing THEN "tracing" ELSE "ended")
\* A callback that finds running cleared returns at once.
CallbackBegins == etw.running /\ ConsumerGo("tracing", "callback")
CallbackReturns == ConsumerGo("callback", "tracing")
TraceEnds == ~Tracing /\ ConsumerGo("tracing", "ended")

\* Any administrator can stop a session, and Windows can.
SessionStoppedOutside ==
  /\ "session" \in os
  /\ os' = os \ {"session"}
  /\ UNCHANGED <<gui, engine, etw, state, signalled, Threads, starved>>

-----------------------------------------------------------------------------
Create == OpenLog \/ RegisterClasses \/ CreateWindow \/ CreateFonts \/ CreateControls
          \/ InitializeStore \/ InitializeQueue \/ StartWinsock \/ CreateStopEvent
          \/ StopEventFails \/ StartTelemetry
StartEtw == AllocateProperties \/ StartTrace \/ EnableProvider \/ OpenTrace
            \/ CreateConsumer \/ EtwCallFails \/ ConsumerFails
StartWorker == CreateWorker \/ WorkerFails
Shutdown == ShutdownGuiState \/ SignalWorker \/ JoinWorker \/ WorkerStopped \/ EtwStop
            \/ StopSession \/ CloseTrace \/ JoinConsumer \/ ReleaseMonitors \/ CloseStopEvent
            \/ DestroyQueue \/ DestroyStore \/ LeaveGui \/ CloseLog
Consumer == ConsumerBegins \/ CallbackBegins \/ CallbackReturns \/ TraceEnds

Next ==
  \/ Create \/ StartEtw \/ StartWorker
  \/ CloseWindow \/ MessageLoopFails
  \/ Shutdown
  \/ Worker
  \/ Consumer
  \/ SessionStoppedOutside

(* The threads run, ProcessTrace returns once it has nothing to trace, and   *)
(* the GUI thread does not stop in the middle of opening or closing; nobody  *)
(* has to close the window.                                                  *)
Fairness ==
  /\ WF_vars(Create \/ StartEtw \/ StartWorker) /\ WF_vars(Shutdown)
  /\ WF_vars(Worker)
  /\ WF_vars(ConsumerBegins) /\ WF_vars(CallbackReturns) /\ WF_vars(TraceEnds)

Spec == Init /\ [][Next]_vars /\ Fairness

-----------------------------------------------------------------------------
(* Properties *)

\* Every variable has its type; a handle of the program is that of something
\* open: a thread handle or the stop event is non-null exactly while Windows holds it.
TypeOK ==
  /\ gui \in GuiSteps /\ worker \in WorkerSteps /\ consumer \in ConsumerSteps
  /\ os \subseteq Resources
  /\ signalled \in BOOLEAN /\ starved \in BOOLEAN
  /\ engine \in [{"stop_event", "worker_thread", "running", "network_available"} -> BOOLEAN]
  /\ etw \in [{"session_handle", "trace_handle", "thread", "running", "enabled", "last_error"}
              -> BOOLEAN]
  /\ engine.stop_event = ("event" \in os) /\ engine.worker_thread = ("worker" \in os)
  /\ etw.thread = ("consumer" \in os)
  /\ state \in [{"store_ready", "queue_ready", "telemetry_ready", "shutting_down"} -> BOOLEAN]

Ended == {"none", "ended"}

\* A running collector has everything its next call needs: the queue it pushes
\* into, the stop event it waits for, Winsock for the TCP table, a monitor that
\* has not been zeroed, and the logger, whose lock nobody but wWinMain's last step
\* deletes (telemetry.c:76-99, gui.c:1672-1692, logger.c:33-45).
CollectorsHaveMeans ==
  /\ worker \notin Ended => {"log", "queue", "event"} \subseteq os
  /\ worker = "network" => "winsock" \in os
  /\ consumer \notin Ended => {"log", "queue"} \subseteq os /\ etw.thread

\* Whichever call of the start failed, and wherever the window was closed, the
\* end leaves nothing of the program in Windows: no thread, handle, session, font,
\* class or memory.  The exceptions are a session for whose end there was no memory
\* (etw_monitor.c:314-320, 348-357), and the window and its classes when the
\* message loop itself has failed (gui.c:1957-1970).
NothingHeldAtExit ==
  gui = "exit" =>
    os \subseteq (IF starved THEN {"session"} ELSE {})
                 \union (IF "window" \in os THEN {"window", "main_class", "details_class"} ELSE {})

\* Closing the window, or a start that fails, ends the program: no wait of the
\* GUI thread is for good.
WindowCloses == gui \in {"destroy", "broken", "log_close"} ~> gui = "exit"

\* "The Overview and status bar always display the active mode"
\* (docs/architecture.md:81-82): when the ETW thread has ended, the program says
\* so sooner or later.
ModeName == IF etw.enabled THEN "ETW" ELSE "Win32 Fallback"
ActiveModeShown ==
  (gui = "loop" /\ consumer = "ended") ~> (gui # "loop" \/ ModeName = "Win32 Fallback")
=============================================================================
