----------------------------- MODULE MCProcessTree -----------------------------
(* Three PIDs, one of them with two lives, each of which may name any of the   *)
(* others as its parent, with and without a creation time.                     *)
EXTENDS ProcessTree

Key(pid, time) == [pid |-> pid, creation_time |-> time]
MCReports ==
  {[type |-> "start", process |-> key, parent |-> parent, name |-> NoName] :
     key \in {Key(4, 1), Key(4, 4), Key(5, 2), Key(6, 0)},
     parent \in {Key(0, 0), Key(4, 0), Key(4, 4), Key(5, 2), Key(6, 0)}}
  \union {[type |-> "stop", process |-> Key(4, 1), parent |-> Key(0, 0), name |-> NoName]}
================================================================================
