------------------------------ MODULE MCGuiViews ------------------------------
(* An interpreter started by an office program, and a connection that another   *)
(* interpreter opened before, reported after it: each event may cause an alert.  *)
EXTENDS GuiViews

Blank == [type |-> "start", process_name |-> "pwsh", parent_name |-> "explorer",
          executable_path |-> "system", timestamp |-> 1, rule_name |-> ""]
MCArrivals ==
  {[Blank EXCEPT !.parent_name = "winword", !.timestamp = 2],
   [Blank EXCEPT !.type = "network", !.process_name = "cmd"]}
MCNameOrder == [name \in {"cmd", "pwsh"} |-> IF name = "cmd" THEN 1 ELSE 2]
\* A row of the first event, and one that would push it off the Overview.
MCMayRefuse == {<<"timeline", 1>>, <<"overview", 2>>}
=============================================================================
