-------------------------- MODULE MCProcessTelemetry --------------------------
(* Small instances of ProcessTelemetry for TLC. *)
EXTENDS ProcessTelemetry

Circumstances(pids, parents, baseline, hidden, lasting, traced, lossy, undecoded, atomic) ==
  [pids |-> pids, parents |-> parents, baseline |-> baseline, hidden |-> hidden, lasting |-> lasting,
   etw |-> traced, lossy |-> lossy, undecoded |-> undecoded, atomic |-> atomic]

\* Win32 fallback with the idle process and a PID that is used twice, by the
\* parent of one process and then by its child, or after it has ended; two
\* processes, one of them already running, that may end while a snapshot is
\* being queried, with and without ETW; a process that denies access; a parent
\* and its child under ETW; a session that loses records.
\* Then sessions whose records cannot all be decoded: PIDs and times, with a
\* process that denies access; times and parents' PIDs.  Last, ETW while the PID of
\* a parent is used again and its child runs on.
MCEnvironments ==
  {Circumstances(<<0, 5, 5>>, <<0, 1, 0>>, 2, {}, {}, FALSE, FALSE, {}, TRUE),
   Circumstances(<<5, 6, 5>>, <<0, 1, 2>>, 2, {}, {}, FALSE, FALSE, {}, TRUE),
   Circumstances(<<5, 6, 5>>, <<0, 1, 0>>, 1, {}, {}, FALSE, FALSE, {}, TRUE),
   Circumstances(<<5, 6>>, <<0, 1>>, 1, {}, {}, FALSE, FALSE, {}, FALSE),
   Circumstances(<<0, 5, 6>>, <<0, 0, 2>>, 2, {}, {}, TRUE, FALSE, {}, FALSE),
   Circumstances(<<5, 6>>, <<0, 0>>, 0, {}, {}, TRUE, FALSE, {}, TRUE),
   Circumstances(<<5, 6>>, <<0, 1>>, 0, {1}, {}, TRUE, FALSE, {}, FALSE),
   Circumstances(<<5, 6>>, <<0, 1>>, 0, {2}, {}, TRUE, FALSE, {}, TRUE),
   Circumstances(<<5>>, <<0>>, 0, {}, {}, TRUE, TRUE, {}, FALSE),
   Circumstances(<<5, 6>>, <<0, 1>>, 1, {2}, {}, TRUE, FALSE, {"pid", "time"}, TRUE),
   Circumstances(<<5, 6>>, <<0, 1>>, 1, {}, {}, TRUE, FALSE, {"time", "parent"}, TRUE),
   Circumstances(<<5, 6, 5>>, <<0, 1, 0>>, 1, {}, {2}, TRUE, FALSE, {}, TRUE)}

\* A PID used twice while ETW is active.
ReuseEnvironments == {Circumstances(<<5, 5>>, <<0, 0>>, 0, {}, {}, TRUE, FALSE, {}, TRUE)}
===============================================================================
