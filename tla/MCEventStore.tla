---------------------------- MODULE MCEventStore ----------------------------
(* Small instance of EventStore for TLC. *)
EXTENDS EventStore

CONSTANT cmd

Key(p, t) == [pid |-> p, creation_time |-> t]

Report(type, key, parent, name) ==
  [type |-> type, process |-> key, parent |-> parent, name |-> name]

\* One PID with two lives and the reports that could not query which, the
\* idle process, and one report each that knows the parent or the name.
MCReports ==
  {Report(ty, Key(4, t), NoKey, NoName) : ty \in {"start", "stop"}, t \in 0..2}
  \cup {Report("start", Key(4, 1), Key(8, 1), cmd),
        Report("start", Key(0, 0), NoKey, NoName),
        Report("network", NoKey, NoKey, NoName),
        Report("alert", NoKey, NoKey, NoName)}
=============================================================================
