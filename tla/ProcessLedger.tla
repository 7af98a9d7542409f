---------------------------- MODULE ProcessLedger ----------------------------
(***************************************************************************)
(* What the event store promises about the processes whose creation time   *)
(* is known: each is first unseen, may be seen running, may be seen to     *)
(* stop, and never goes back.  Reports come in any order, so a process can *)
(* be stopped without having been seen running.  Closing the ledger, at    *)
(* shutdown, empties it for good.                                          *)
(***************************************************************************)
CONSTANT Identities

VARIABLES status, open

Init == status = [k \in Identities |-> "unseen"] /\ open = TRUE

Start(k) == /\ status[k] = "unseen"
            /\ status' = [status EXCEPT ![k] = "running"]

Stop(k) == /\ status[k] \in {"unseen", "running"}
           /\ status' = [status EXCEPT ![k] = "stopped"]

Close == /\ open' = FALSE
         /\ status' = [k \in Identities |-> "unseen"]

Next == /\ open
        /\ \/ \E k \in Identities : (Start(k) \/ Stop(k)) /\ UNCHANGED open
           \/ Close

Spec == Init /\ [][Next]_<<status, open>>
==============================================================================
