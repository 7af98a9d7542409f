------------------------------- MODULE Detection -------------------------------
(***************************************************************************)
(* The alert rules of detection.c: a pure function from an event to the     *)
(* alerts it causes.  Names and paths are values that the sets of office    *)
(* programs, script interpreters and temporary directories classify.        *)
(***************************************************************************)
EXTENDS Naturals, Sequences, FiniteSets

CONSTANTS OfficeNames, InterpreterNames, TempPaths

MaxAlertsPerEvent == 3

Rules == <<"office", "temporary", "network">>

\* The numbers of a set in increasing order, and the elements of a sequence at them.
InOrder(numbers) ==
  [k \in 1..Cardinality(numbers) |->
     CHOOSE i \in numbers : Cardinality({j \in numbers : j < i}) = k - 1]
Elements(s, positions) ==
  LET list == InOrder(positions)
  IN  [k \in DOMAIN list |-> s[list[k]]]

RuleApplies(rule, event) ==
  \/ /\ rule = "office" /\ event.type = "start"
     /\ event.parent_name \in OfficeNames /\ event.process_name \in InterpreterNames
  \/ /\ rule = "temporary" /\ event.type = "start"
     /\ event.executable_path \in TempPaths
  \/ /\ rule = "network" /\ event.type = "network"
     /\ event.process_name \in InterpreterNames

\* initialize_alert copies the event and its time; the rule adds its name.
Alert(event, rule) == [event EXCEPT !.type = "alert", !.rule_name = rule]

\* The first alerts of some rules, as many as there is room for.
AlertsOf(event, rules, capacity) ==
  [i \in 1..(IF Len(rules) < capacity THEN Len(rules) ELSE capacity) |-> Alert(event, rules[i])]

\* Faulty variant: the rules look at the names of any event, alerts included.
EvaluateAnything(event, capacity) ==
  AlertsOf(event, Elements(Rules, {k \in DOMAIN Rules :
                    \/ Rules[k] # "temporary" /\ event.process_name \in InterpreterNames
                    \/ Rules[k] = "temporary" /\ event.executable_path \in TempPaths}),
           capacity)

\* detection_evaluate
Evaluate(event, capacity) ==
  IF event.type = "alert" THEN <<>>
  ELSE AlertsOf(event, Elements(Rules, {k \in DOMAIN Rules : RuleApplies(Rules[k], event)}),
                capacity)
===============================================================================
